---- MODULE Spec2Model ----
(***************************************************************************)
(* Model of the HC-SR04 distance sensor driver (hc-sr04.c).                *)
(*                                                                         *)
(* Blocking contexts (sysfs readers and writers, the module exit) are the  *)
(* processes of Procs; the edge interrupt handler echo_received_irq is an  *)
(* action of its own that interleaves with every step of them.  Kernel     *)
(* services are                                                            *)
(* modelled by their documented contracts:                                 *)
(*   - mutex_lock blocks until the mutex is free, mutex_trylock never      *)
(*     blocks;                                                             *)
(*   - gpio_request fails with -EBUSY on a pin that is already requested;  *)
(*   - kmalloc returns memory whose content is arbitrary;                  *)
(*   - wait_event_interruptible_timeout returns 0 when the condition is    *)
(*     false after the timeout elapsed, a positive value when the          *)
(*     condition is true, -ERESTARTSYS when a signal arrives while the     *)
(*     condition is false;                                                 *)
(*   - device_unregister removes the sysfs attribute group of the device   *)
(*     and does not return while a show() callback of it is still running. *)
(***************************************************************************)
EXTENDS Integers, Sequences, FiniteSets, TLC

(* ---- bounds of the model ---- *)
NumProcs == 2
MaxSensors == 2
MaxOps == 3        \* requests (add, remove, measure) per run
MaxEdges == 2      \* edges on the echo lines per run
MaxTime == 2       \* the clock stops here
MaxTimeout == 1
TicksPerSec == 2

Procs == 1..NumProcs
SensorIds == 1..MaxSensors
Timeouts == 1..MaxTimeout

(* ---- pins and the inputs of configure_store ---- *)
(* Pin 3 is held by another driver for the whole run, so <<1, 2>> is the   *)
(* one pair that can be registered; <<3, 2>> fails at the trigger pin,     *)
(* <<1, 3>> at the echo pin and <<InvalidPin, 2>> at the validation.       *)
InvalidPin == -1
ValidPins == {1, 2, 3}
ForeignPins == {3}
Keys == {<<1, 2>>, <<3, 2>>, <<1, 3>>, <<InvalidPin, 2>>}

NoProc == 0
NULL == 0
(* an indeterminate value: memory that was never written *)
Junk == -1

(* ---- timestamps ---- *)
NSEC_PER_SEC == 1000000000
NsecPerTick == NSEC_PER_SEC \div TicksPerSec

(* ktime_get_real_ts64 at clock value t *)
timespec64(t) ==
  [tv_sec |-> t \div TicksPerSec, tv_nsec |-> (t % TicksPerSec) * NsecPerTick]

(* a struct timespec64 that was never written *)
JunkTime == [tv_sec |-> Junk, tv_nsec |-> Junk]

VARIABLES
  devices_mutex,     \* owner of devices_mutex, NoProc when free
  hc_sr04_devices,   \* the list of devices, a sequence of sensor addresses
  mem,               \* the heap: one struct hc_sr04 (or FreeSlot) per address
  gpio_requested,    \* pins held through gpio_request
  gpio_level,        \* level of every pin
  irq_handlers,      \* registered <<irq, dev_id>> pairs
  irq_pending,       \* interrupt lines with an edge not yet handled
  irq_ctx,           \* per interrupt line: the running echo_received_irq
  class_devs,        \* sensors that have a device in hc_sr04_class
  proc,              \* per process: operation, position and locals
  woken,             \* processes woken through wait_for_echo
  now,               \* the clock (jiffies and wall clock alike)
  captured,          \* history: edges captured since the measurement began
  ops,               \* requests started so far
  edges              \* echo edges so far

vars == <<devices_mutex, hc_sr04_devices, mem, gpio_requested, gpio_level,
          irq_handlers, irq_pending, irq_ctx, class_devs, proc, woken, now,
          captured, ops, edges>>

(* ---- struct hc_sr04 ---- *)
FreeSlot ==
  [alloc |-> FALSE, gpio_trig |-> 0, gpio_echo |-> 0, irq |-> 0,
   time_triggered |-> timespec64(0), time_echoed |-> timespec64(0),
   echo_received |-> 0,
   device_triggered |-> 0, measurement_mutex |-> NoProc, timeout |-> 0]

IdleIrq ==
  [pc |-> "idle", device |-> NULL, irq_ts |-> timespec64(0), val |-> 0,
   stale |-> FALSE]

(* history of the current measurement of a sensor: rise and fall tell that *)
(* a handler run of this measurement stored the time, fell that the echo  *)
(* line fell since this measurement set device_triggered                 *)
NoCapture == [rise |-> FALSE, fall |-> FALSE, fell |-> FALSE]

IdleProc ==
  [pc |-> "idle", op |-> "none", trig |-> 0, echo |-> 0, timeout |-> 0,
   sensor |-> NULL, tmp |-> NULL, ret |-> "none", usecs_elapsed |-> 0,
   wait_start |-> 0]

(* a process that returned keeps the operation and its status *)
Returned(op, ret) == [IdleProc EXCEPT !.op = op, !.ret = ret]

(* the module is loaded until exit_hc_sr04 has returned *)
ModuleLoaded == \A q \in Procs : ~(proc[q].op = "exit" /\ proc[q].pc = "idle")

(* ---- list helpers ---- *)
RECURSIVE find_sensor_from(_, _, _, _, _)
find_sensor_from(list, m, i, trig, echo) ==
  IF i > Len(list) THEN NULL
  ELSE IF m[list[i]].gpio_trig = trig /\ m[list[i]].gpio_echo = echo
       THEN list[i]
       ELSE find_sensor_from(list, m, i + 1, trig, echo)

(* fault: a lookup that never finds the pair *)
find_sensor_miss(trig, echo) == NULL

find_sensor(trig, echo) ==
  find_sensor_from(hc_sr04_devices, mem, 1, trig, echo)

list_del(list, s) == SelectSeq(list, LAMBDA x : x # s)

gpio_is_valid(pin) == pin \in ValidPins

(* ---- gpio subsystem ---- *)
gpio_request(req, pin) ==
  IF pin \in req THEN [ret |-> "EBUSY", req |-> req]
  ELSE [ret |-> "OK", req |-> req \cup {pin}]

gpio_free(req, pin) == req \ {pin}

(* fault: the trigger pin is not given back when the echo pin is taken *)
setup_hc_sr04_gpio_leak(req, lvl, trig, echo) ==
  IF ~gpio_is_valid(trig) \/ ~gpio_is_valid(echo)
  THEN [ret |-> "EINVAL", req |-> req, lvl |-> lvl]
  ELSE LET r1 == gpio_request(req, trig) IN
    IF r1.ret # "OK" THEN [ret |-> r1.ret, req |-> r1.req, lvl |-> lvl]
    ELSE LET r2 == gpio_request(r1.req, echo) IN
      IF r2.ret # "OK"
      THEN [ret |-> r2.ret, req |-> r2.req, lvl |-> lvl]
      ELSE [ret |-> "OK", req |-> r2.req, lvl |-> [lvl EXCEPT ![trig] = 0]]

(* setup_hc_sr04_gpio: validate and request both pins, trig low *)
setup_hc_sr04_gpio(req, lvl, trig, echo) ==
  IF ~gpio_is_valid(trig) \/ ~gpio_is_valid(echo)
  THEN [ret |-> "EINVAL", req |-> req, lvl |-> lvl]
  ELSE LET r1 == gpio_request(req, trig) IN
    IF r1.ret # "OK" THEN [ret |-> r1.ret, req |-> r1.req, lvl |-> lvl]
    ELSE LET r2 == gpio_request(r1.req, echo) IN
      IF r2.ret # "OK"
      THEN [ret |-> r2.ret, req |-> gpio_free(r2.req, trig), lvl |-> lvl]
      ELSE [ret |-> "OK", req |-> r2.req, lvl |-> [lvl EXCEPT ![trig] = 0]]

(* outcomes of gpio_to_irq and request_any_context_irq *)
IrqOutcomes == {"OK", "ENXIO", "ENOSYS"}

(* setup_hc_sr04_irq: irqres "ENXIO" is a failing gpio_to_irq, "ENOSYS" a *)
(* failing request_any_context_irq                                        *)
setup_hc_sr04_irq(handlers, dev, echo, irqres) ==
  IF irqres = "ENXIO" THEN [ret |-> "ENXIO", irq |-> -1, handlers |-> handlers]
  ELSE IF irqres = "ENOSYS"
       THEN [ret |-> "ENOSYS", irq |-> echo, handlers |-> handlers]
       ELSE [ret |-> "OK", irq |-> echo,
             handlers |-> handlers \cup {<<echo, dev>>}]

(* kmalloc: the lowest free address, NULL when the heap is exhausted or the *)
(* allocation fails                                                        *)
FreeAddrs(m) == {s \in SensorIds : ~m[s].alloc}
kmalloc(m, allocres) ==
  IF allocres = "ENOMEM" \/ FreeAddrs(m) = {} THEN NULL
  ELSE CHOOSE s \in FreeAddrs(m) : \A t \in FreeAddrs(m) : s <= t

(* content of freshly allocated memory: fields create_hc_sr04 never sets *)
Garbage ==
  [device_triggered : {0, 1}, echo_received : {0, 1},
   time_triggered : {JunkTime}, time_echoed : {JunkTime}]

(* what the kernel answers during one add: the outcome of kmalloc, of the *)
(* two interrupt calls and of device_create_with_groups, and the content *)
(* of the new memory; the later answers matter only when the earlier     *)
(* calls succeed                                                         *)
NoJunk ==
  [device_triggered |-> 0, echo_received |-> 0,
   time_triggered |-> JunkTime, time_echoed |-> JunkTime]
AddEnvs ==
  {[allocres |-> "ENOMEM", irqres |-> "OK", devres |-> "OK", junk |-> NoJunk]}
  \cup {[allocres |-> "OK", irqres |-> e, devres |-> "OK", junk |-> NoJunk] :
          e \in IrqOutcomes \ {"OK"}}
  \cup [allocres : {"OK"}, irqres : {"OK"}, devres : {"OK", "ENOMEM"},
        junk : Garbage]

(* create_hc_sr04, as a function of the state it reads to the state it *)
(* leaves                                                              *)
create_hc_sr04(trig, echo, timeout, allocres, junk, irqres) ==
  LET new == kmalloc(mem, allocres)
      unchanged == [err |-> "OK", new |-> NULL, mem |-> mem,
                    req |-> gpio_requested,
                    lvl |-> gpio_level, handlers |-> irq_handlers,
                    list |-> hc_sr04_devices]
  IN
  IF new = NULL THEN [unchanged EXCEPT !.err = "ENOMEM"]
  ELSE LET g == setup_hc_sr04_gpio(gpio_requested, gpio_level, trig, echo) IN
    IF g.ret # "OK"
    THEN [unchanged EXCEPT !.err = g.ret, !.req = g.req, !.lvl = g.lvl]
    ELSE LET i == setup_hc_sr04_irq(irq_handlers, new, echo, irqres) IN
      IF i.ret # "OK"
      THEN [unchanged EXCEPT !.err = i.ret,
              !.req = gpio_free(gpio_free(g.req, trig), echo),
              !.lvl = g.lvl, !.handlers = i.handlers]
      ELSE [err |-> "OK", new |-> new,
            mem |-> [mem EXCEPT ![new] =
                       [alloc |-> TRUE, gpio_trig |-> trig, gpio_echo |-> echo,
                        irq |-> i.irq,
                        time_triggered |-> junk.time_triggered,
                        time_echoed |-> junk.time_echoed,
                        echo_received |-> junk.echo_received,
                        device_triggered |-> junk.device_triggered,
                        measurement_mutex |-> NoProc, timeout |-> timeout]],
            req |-> g.req, lvl |-> g.lvl, handlers |-> i.handlers,
            list |-> Append(hc_sr04_devices, new)]

(* a create_hc_sr04 result c stands for ERR_PTR(c.err) when c.err is set *)
IS_ERR(c) == c.err # "OK"

(* add_sensor: the result of device_create_with_groups is not looked at *)
add_sensor(trig, echo, timeout, allocres, junk, irqres, devres) ==
  LET c == create_hc_sr04(trig, echo, timeout, allocres, junk, irqres) IN
  IF IS_ERR(c) THEN [ret |-> c.err, st |-> c, devs |-> class_devs]
  ELSE [ret |-> "OK", st |-> c,
        devs |-> IF devres = "OK" THEN class_devs \cup {c.new}
                 ELSE class_devs]

(* ---- mutexes ---- *)
mutex_lock_devices(p) ==
  /\ devices_mutex = NoProc
  /\ devices_mutex' = p

(* ---- configure_store, add ---- *)
(* configure_store parses its request before it takes devices_mutex and  *)
(* reads nothing shared while doing so: a caller that is blocked in        *)
(* mutex_lock is a process whose lock step has not happened yet.           *)
AddLock(p) ==
  /\ proc[p].pc = "idle"
  /\ ModuleLoaded
  /\ ops < MaxOps
  /\ ops' = ops + 1
  /\ mutex_lock_devices(p)
  /\ \E k \in Keys, timeout \in Timeouts :
       proc' = [proc EXCEPT ![p] =
                  [IdleProc EXCEPT !.pc = "cs_add", !.op = "add",
                     !.trig = k[1], !.echo = k[2], !.timeout = timeout]]
  /\ UNCHANGED <<hc_sr04_devices, mem, gpio_requested, gpio_level,
                 irq_handlers, irq_pending, irq_ctx, class_devs, woken, now,
                 captured, edges>>

AddBody(p) ==
  /\ proc[p].pc = "cs_add"
  /\ LET trig == proc[p].trig
         echo == proc[p].echo
     IN
     IF find_sensor(trig, echo) # NULL
     THEN /\ devices_mutex' = NoProc
          /\ proc' = [proc EXCEPT ![p] =
                        Returned("add", "EEXIST")]
          /\ UNCHANGED <<hc_sr04_devices, mem, gpio_requested, gpio_level,
                         irq_handlers, class_devs, captured>>
     ELSE \E env \in AddEnvs :
            LET a == add_sensor(trig, echo, proc[p].timeout, env.allocres,
                                env.junk, env.irqres, env.devres)
            IN
            /\ devices_mutex' = NoProc
            /\ hc_sr04_devices' = a.st.list
            /\ mem' = a.st.mem
            /\ gpio_requested' = a.st.req
            /\ gpio_level' = a.st.lvl
            /\ irq_handlers' = a.st.handlers
            /\ class_devs' = a.devs
            /\ captured' = IF a.ret = "OK"
                           THEN [captured EXCEPT ![a.st.new] = NoCapture]
                           ELSE captured
            /\ proc' = [proc EXCEPT ![p] =
                          Returned("add", a.ret)]
  /\ UNCHANGED <<irq_pending, irq_ctx, woken, now, ops, edges>>

(* ---- configure_store, remove ---- *)
RemoveLock(p) ==
  /\ proc[p].pc = "idle"
  /\ ModuleLoaded
  /\ ops < MaxOps
  /\ ops' = ops + 1
  /\ mutex_lock_devices(p)
  /\ \E k \in Keys :
       proc' = [proc EXCEPT ![p] =
                  [IdleProc EXCEPT !.pc = "cs_rm_find", !.op = "remove",
                     !.trig = k[1], !.echo = k[2]]]
  /\ UNCHANGED <<hc_sr04_devices, mem, gpio_requested, gpio_level,
                 irq_handlers, irq_pending, irq_ctx, class_devs, woken, now,
                 captured, edges>>

(* fault: the not-found branch returns with devices_mutex held *)
RemoveFind_KeepsLock(p) ==
  /\ proc[p].pc = "cs_rm_find"
  /\ LET rip_sensor == find_sensor(proc[p].trig, proc[p].echo) IN
     IF rip_sensor = NULL
     THEN proc' = [proc EXCEPT ![p] = Returned("remove", "ENODEV")]
     ELSE proc' = [proc EXCEPT ![p].pc = "rs_find", ![p].sensor = rip_sensor]
  /\ UNCHANGED <<devices_mutex, hc_sr04_devices, mem, gpio_requested,
                 gpio_level, irq_handlers, irq_pending, irq_ctx, class_devs,
                 woken, now, captured, ops, edges>>

RemoveFind(p) ==
  /\ proc[p].pc = "cs_rm_find"
  /\ LET rip_sensor == find_sensor(proc[p].trig, proc[p].echo) IN
     IF rip_sensor = NULL
     THEN /\ devices_mutex' = NoProc
          /\ proc' = [proc EXCEPT ![p] =
                        Returned("remove", "ENODEV")]
     ELSE /\ proc' = [proc EXCEPT ![p].pc = "rs_find",
                                  ![p].sensor = rip_sensor]
          /\ UNCHANGED devices_mutex
  /\ UNCHANGED <<hc_sr04_devices, mem, gpio_requested, gpio_level,
                 irq_handlers, irq_pending, irq_ctx, class_devs, woken, now,
                 captured, ops, edges>>

(* remove_sensor: class_find_device; on NULL configure_store unlocks and *)
(* returns the error, exit_hc_sr04 goes on with the next entry           *)
RsFindDevice(p) ==
  /\ proc[p].pc = "rs_find"
  /\ IF proc[p].sensor \notin class_devs
     THEN IF proc[p].op = "exit"
          THEN /\ proc' = [proc EXCEPT ![p].pc = "ex_next"]
               /\ UNCHANGED devices_mutex
          ELSE /\ devices_mutex' = NoProc
               /\ proc' = [proc EXCEPT ![p] = Returned("remove", "ENODEV")]
     ELSE /\ proc' = [proc EXCEPT ![p].pc = "rs_mlock"]
          /\ UNCHANGED devices_mutex
  /\ UNCHANGED <<hc_sr04_devices, mem, gpio_requested, gpio_level,
                 irq_handlers, irq_pending, irq_ctx, class_devs, woken, now,
                 captured, ops, edges>>

(* fault: remove_sensor does not wait for the measurement *)
RsMutexLock_NoWait(p) ==
  /\ proc[p].pc = "rs_mlock"
  /\ proc' = [proc EXCEPT ![p].pc = "rs_unreg"]
  /\ UNCHANGED <<devices_mutex, hc_sr04_devices, mem, gpio_requested,
                 gpio_level, irq_handlers, irq_pending, irq_ctx, class_devs,
                 woken, now, captured, ops, edges>>

(* mutex_lock(&rip_sensor->measurement_mutex) *)
RsMutexLock(p) ==
  /\ proc[p].pc = "rs_mlock"
  /\ mem[proc[p].sensor].measurement_mutex = NoProc
  /\ mem' = [mem EXCEPT ![proc[p].sensor].measurement_mutex = p]
  /\ proc' = [proc EXCEPT ![p].pc = "rs_unreg"]
  /\ UNCHANGED <<devices_mutex, hc_sr04_devices, gpio_requested, gpio_level,
                 irq_handlers, irq_pending, irq_ctx, class_devs, woken, now,
                 captured, ops, edges>>

(* show() callbacks running on the device of sensor s *)
ActiveShow(s) ==
  {q \in Procs : proc[q].op = "measure" /\ proc[q].pc # "idle"
                 /\ proc[q].sensor = s}

(* device_unregister and put_device *)
RsUnregister(p) ==
  /\ proc[p].pc = "rs_unreg"
  /\ ActiveShow(proc[p].sensor) = {}
  /\ class_devs' = class_devs \ {proc[p].sensor}
  /\ proc' = [proc EXCEPT ![p].pc = "rs_munlock"]
  /\ UNCHANGED <<devices_mutex, hc_sr04_devices, mem, gpio_requested,
                 gpio_level, irq_handlers, irq_pending, irq_ctx, woken, now,
                 captured, ops, edges>>

(* fault: measurement_mutex is kept through destroy_hc_sr04 *)
RsMutexUnlock_Keeps(p) ==
  /\ proc[p].pc = "rs_munlock"
  /\ proc' = [proc EXCEPT ![p].pc = "d_list_del"]
  /\ UNCHANGED <<devices_mutex, hc_sr04_devices, mem, gpio_requested,
                 gpio_level, irq_handlers, irq_pending, irq_ctx, class_devs,
                 woken, now, captured, ops, edges>>

(* mutex_unlock(&rip_sensor->measurement_mutex) *)
RsMutexUnlock(p) ==
  /\ proc[p].pc = "rs_munlock"
  /\ mem' = [mem EXCEPT ![proc[p].sensor].measurement_mutex = NoProc]
  /\ proc' = [proc EXCEPT ![p].pc = "d_list_del"]
  /\ UNCHANGED <<devices_mutex, hc_sr04_devices, gpio_requested, gpio_level,
                 irq_handlers, irq_pending, irq_ctx, class_devs, woken, now,
                 captured, ops, edges>>

(* destroy_hc_sr04, one statement per step *)
DestroyListDel(p) ==
  /\ proc[p].pc = "d_list_del"
  /\ hc_sr04_devices' = list_del(hc_sr04_devices, proc[p].sensor)
  /\ proc' = [proc EXCEPT ![p].pc = "d_free_irq"]
  /\ UNCHANGED <<devices_mutex, mem, gpio_requested, gpio_level,
                 irq_handlers, irq_pending, irq_ctx, class_devs, woken, now,
                 captured, ops, edges>>

(* fault: the handler is taken off the line without waiting for a run of *)
(* it that is in progress                                                *)
DestroyFreeIrq_NoSync(p) ==
  /\ proc[p].pc = "d_free_irq"
  /\ LET irq == mem[proc[p].sensor].irq IN
       /\ irq_handlers' = irq_handlers \ {<<irq, proc[p].sensor>>}
       /\ irq_pending' = irq_pending \ {irq}
  /\ proc' = [proc EXCEPT ![p].pc = "d_gpio_free_echo"]
  /\ UNCHANGED <<devices_mutex, hc_sr04_devices, mem, gpio_requested,
                 gpio_level, irq_ctx, class_devs, woken, now,
                 captured, ops, edges>>

(* free_irq returns once no handler of the line is running *)
DestroyFreeIrq(p) ==
  /\ proc[p].pc = "d_free_irq"
  /\ LET irq == mem[proc[p].sensor].irq IN
       /\ irq_ctx[irq].pc = "idle"
       /\ irq_handlers' = irq_handlers \ {<<irq, proc[p].sensor>>}
       /\ irq_pending' = irq_pending \ {irq}
  /\ proc' = [proc EXCEPT ![p].pc = "d_gpio_free_echo"]
  /\ UNCHANGED <<devices_mutex, hc_sr04_devices, mem, gpio_requested,
                 gpio_level, irq_ctx, class_devs, woken, now,
                 captured, ops, edges>>

DestroyFreeEcho(p) ==
  /\ proc[p].pc = "d_gpio_free_echo"
  /\ gpio_requested' = gpio_free(gpio_requested, mem[proc[p].sensor].gpio_echo)
  /\ proc' = [proc EXCEPT ![p].pc = "d_gpio_free_trig"]
  /\ UNCHANGED <<devices_mutex, hc_sr04_devices, mem, gpio_level,
                 irq_handlers, irq_pending, irq_ctx, class_devs, woken, now,
                 captured, ops, edges>>

DestroyFreeTrig(p) ==
  /\ proc[p].pc = "d_gpio_free_trig"
  /\ gpio_requested' = gpio_free(gpio_requested, mem[proc[p].sensor].gpio_trig)
  /\ proc' = [proc EXCEPT ![p].pc = "d_kfree"]
  /\ UNCHANGED <<devices_mutex, hc_sr04_devices, mem, gpio_level,
                 irq_handlers, irq_pending, irq_ctx, class_devs, woken, now,
                 captured, ops, edges>>

DestroyKfree(p) ==
  /\ proc[p].pc = "d_kfree"
  /\ mem' = [mem EXCEPT ![proc[p].sensor] = FreeSlot]
  /\ captured' = [captured EXCEPT ![proc[p].sensor] = NoCapture]
  /\ proc' = [proc EXCEPT ![p].pc = IF proc[p].op = "exit" THEN "ex_next"
                                    ELSE "cs_rm_unlock"]
  /\ UNCHANGED <<devices_mutex, hc_sr04_devices, gpio_requested, gpio_level,
                 irq_handlers, irq_pending, irq_ctx, class_devs,
                 woken, now, ops, edges>>

RemoveUnlock(p) ==
  /\ proc[p].pc = "cs_rm_unlock"
  /\ devices_mutex' = NoProc
  /\ proc' = [proc EXCEPT ![p] =
                Returned("remove", "OK")]
  /\ UNCHANGED <<hc_sr04_devices, mem, gpio_requested, gpio_level,
                 irq_handlers, irq_pending, irq_ctx, class_devs, woken, now,
                 captured, ops, edges>>

(* ---- exit_hc_sr04 ---- *)
(* the entry after s in the list, NULL at its end *)
list_next(list, s) ==
  IF \E i \in DOMAIN list : list[i] = s /\ i < Len(list)
  THEN list[(CHOOSE i \in DOMAIN list : list[i] = s) + 1]
  ELSE NULL

(* mutex_lock(&devices_mutex) and the first entry of the list *)
ExitLock(p) ==
  /\ proc[p].pc = "idle"
  /\ \A q \in Procs : proc[q].op # "exit"
  /\ ops < MaxOps
  /\ ops' = ops + 1
  /\ mutex_lock_devices(p)
  /\ proc' = [proc EXCEPT ![p] =
                [IdleProc EXCEPT !.pc = "ex_next", !.op = "exit",
                   !.tmp = IF hc_sr04_devices = <<>> THEN NULL
                           ELSE Head(hc_sr04_devices)]]
  /\ UNCHANGED <<hc_sr04_devices, mem, gpio_requested, gpio_level,
                 irq_handlers, irq_pending, irq_ctx, class_devs, woken, now,
                 captured, edges>>

(* list_for_each_entry_safe: rip_sensor is the saved entry, tmp the one *)
(* after it; remove_sensor(rip_sensor), its result ignored              *)
ExitNext(p) ==
  /\ proc[p].pc = "ex_next"
  /\ IF proc[p].tmp = NULL
     THEN proc' = [proc EXCEPT ![p].pc = "ex_unlock"]
     ELSE proc' = [proc EXCEPT ![p].pc = "rs_find",
                     ![p].sensor = proc[p].tmp,
                     ![p].tmp = list_next(hc_sr04_devices, proc[p].tmp)]
  /\ UNCHANGED <<devices_mutex, hc_sr04_devices, mem, gpio_requested,
                 gpio_level, irq_handlers, irq_pending, irq_ctx, class_devs,
                 woken, now, captured, ops, edges>>

ExitUnlock(p) ==
  /\ proc[p].pc = "ex_unlock"
  /\ devices_mutex' = NoProc
  /\ proc' = [proc EXCEPT ![p].pc = "ex_class_unreg"]
  /\ UNCHANGED <<hc_sr04_devices, mem, gpio_requested, gpio_level,
                 irq_handlers, irq_pending, irq_ctx, class_devs, woken, now,
                 captured, ops, edges>>

(* class_unregister removes the configure attribute and does not return *)
(* while a configure_store is running                                   *)
ExitClassUnregister(p) ==
  /\ proc[p].pc = "ex_class_unreg"
  /\ \A q \in Procs : proc[q].op \in {"add", "remove"} => proc[q].pc = "idle"
  /\ proc' = [proc EXCEPT ![p] = Returned("exit", "OK")]
  /\ UNCHANGED <<devices_mutex, hc_sr04_devices, mem, gpio_requested,
                 gpio_level, irq_handlers, irq_pending, irq_ctx, class_devs,
                 woken, now, captured, ops, edges>>

(* ---- the elapsed time ---- *)
(* integer division of C, rounding towards zero *)
CDiv(a, b) == IF a >= 0 THEN a \div b ELSE -((-a) \div b)

(* fault: the seconds are scaled to milliseconds *)
usecs_between_msec(echoed, triggered) ==
  (echoed.tv_sec - triggered.tv_sec) * 1000
    + CDiv(echoed.tv_nsec - triggered.tv_nsec, 1000)

(* the elapsed time as do_measurement computes it *)
usecs_between(echoed, triggered) ==
  (echoed.tv_sec - triggered.tv_sec) * 1000000
    + CDiv(echoed.tv_nsec - triggered.tv_nsec, 1000)

(* the same on the fields of a sensor; indeterminate when one of them is *)
usecs_elapsed_of(d) ==
  IF d.time_echoed = JunkTime \/ d.time_triggered = JunkTime THEN Junk
  ELSE usecs_between(d.time_echoed, d.time_triggered)

(* ---- sysfs_do_measurement and do_measurement ---- *)
StartMeasure(p) ==
  /\ proc[p].pc = "idle"
  /\ ModuleLoaded
  /\ ops < MaxOps
  /\ ops' = ops + 1
  /\ \E s \in class_devs :
       proc' = [proc EXCEPT ![p] =
                  [IdleProc EXCEPT !.pc = "m_lock", !.op = "measure",
                     !.sensor = s]]
  /\ UNCHANGED <<devices_mutex, hc_sr04_devices, mem, gpio_requested,
                 gpio_level, irq_handlers, irq_pending, irq_ctx, class_devs,
                 woken, now, captured, edges>>

MeasureLock(p) ==
  /\ proc[p].pc = "m_lock"
  /\ mutex_lock_devices(p)
  /\ proc' = [proc EXCEPT ![p].pc = "m_trylock"]
  /\ UNCHANGED <<hc_sr04_devices, mem, gpio_requested, gpio_level,
                 irq_handlers, irq_pending, irq_ctx, class_devs, woken, now,
                 captured, ops, edges>>

(* fault: the result of mutex_trylock is not looked at *)
MeasureTryLock_NoTest(p) ==
  /\ proc[p].pc = "m_trylock"
  /\ mem' = [mem EXCEPT ![proc[p].sensor].measurement_mutex = p]
  /\ proc' = [proc EXCEPT ![p].pc = "m_sleep"]
  /\ captured' = [captured EXCEPT ![proc[p].sensor] = NoCapture]
  /\ devices_mutex' = NoProc
  /\ UNCHANGED <<hc_sr04_devices, gpio_requested, gpio_level, irq_handlers,
                 irq_pending, irq_ctx, class_devs, woken, now, ops, edges>>

(* fault: devices_mutex is released on the busy branch only *)
MeasureTryLock_HoldsRegistry(p) ==
  /\ proc[p].pc = "m_trylock"
  /\ LET s == proc[p].sensor IN
     IF mem[s].measurement_mutex # NoProc
     THEN /\ proc' = [proc EXCEPT ![p].pc = "m_return", ![p].ret = "EBUSY"]
          /\ devices_mutex' = NoProc
          /\ UNCHANGED <<mem, captured>>
     ELSE /\ mem' = [mem EXCEPT ![s].measurement_mutex = p]
          /\ proc' = [proc EXCEPT ![p].pc = "m_sleep"]
          /\ captured' = [captured EXCEPT ![s] = NoCapture]
          /\ UNCHANGED devices_mutex
  /\ UNCHANGED <<hc_sr04_devices, gpio_requested, gpio_level, irq_handlers,
                 irq_pending, irq_ctx, class_devs, woken, now, ops, edges>>

(* mutex_trylock and the release of devices_mutex on both branches *)
MeasureTryLock(p) ==
  /\ proc[p].pc = "m_trylock"
  /\ LET s == proc[p].sensor IN
     IF mem[s].measurement_mutex # NoProc
     THEN /\ proc' = [proc EXCEPT ![p].pc = "m_return", ![p].ret = "EBUSY"]
          /\ UNCHANGED <<mem, captured, irq_ctx>>
     ELSE /\ mem' = [mem EXCEPT ![s].measurement_mutex = p]
          /\ proc' = [proc EXCEPT ![p].pc = "m_sleep"]
          /\ captured' = [captured EXCEPT ![s] = NoCapture]
          /\ irq_ctx' = [g \in ValidPins |->
                           IF irq_ctx[g].pc # "idle" /\ irq_ctx[g].device = s
                           THEN [irq_ctx[g] EXCEPT !.stale = TRUE]
                           ELSE irq_ctx[g]]
  /\ devices_mutex' = NoProc
  /\ UNCHANGED <<hc_sr04_devices, gpio_requested, gpio_level, irq_handlers,
                 irq_pending, class_devs, woken, now, ops, edges>>

(* end of msleep(60); device->echo_received = 0 *)
MeasureResetEcho(p) ==
  /\ proc[p].pc = "m_sleep"
  /\ mem' = [mem EXCEPT ![proc[p].sensor].echo_received = 0]
  /\ proc' = [proc EXCEPT ![p].pc = "m_reset_trig"]
  /\ UNCHANGED <<devices_mutex, hc_sr04_devices, gpio_requested, gpio_level,
                 irq_handlers, irq_pending, irq_ctx, class_devs, woken, now,
                 captured, ops, edges>>

(* device->device_triggered = 0 *)
MeasureResetTriggered(p) ==
  /\ proc[p].pc = "m_reset_trig"
  /\ mem' = [mem EXCEPT ![proc[p].sensor].device_triggered = 0]
  /\ proc' = [proc EXCEPT ![p].pc = "m_trig_high"]
  /\ UNCHANGED <<devices_mutex, hc_sr04_devices, gpio_requested, gpio_level,
                 irq_handlers, irq_pending, irq_ctx, class_devs, woken, now,
                 captured, ops, edges>>

(* gpio_set_value(device->gpio_trig, 1) *)
MeasureTrigHigh(p) ==
  /\ proc[p].pc = "m_trig_high"
  /\ gpio_level' = [gpio_level EXCEPT ![mem[proc[p].sensor].gpio_trig] = 1]
  /\ proc' = [proc EXCEPT ![p].pc = "m_udelay"]
  /\ UNCHANGED <<devices_mutex, hc_sr04_devices, mem, gpio_requested,
                 irq_handlers, irq_pending, irq_ctx, class_devs, woken, now,
                 captured, ops, edges>>

(* end of udelay(10); device->device_triggered = 1 *)
MeasureSetTriggered(p) ==
  /\ proc[p].pc = "m_udelay"
  /\ mem' = [mem EXCEPT ![proc[p].sensor].device_triggered = 1]
  /\ proc' = [proc EXCEPT ![p].pc = "m_trig_low"]
  /\ captured' = [captured EXCEPT ![proc[p].sensor].fell = FALSE]
  /\ UNCHANGED <<devices_mutex, hc_sr04_devices, gpio_requested, gpio_level,
                 irq_handlers, irq_pending, irq_ctx, class_devs, woken, now,
                 ops, edges>>

(* gpio_set_value(device->gpio_trig, 0) *)
MeasureTrigLow(p) ==
  /\ proc[p].pc = "m_trig_low"
  /\ gpio_level' = [gpio_level EXCEPT ![mem[proc[p].sensor].gpio_trig] = 0]
  /\ proc' = [proc EXCEPT ![p].pc = "m_wait"]
  /\ UNCHANGED <<devices_mutex, hc_sr04_devices, mem, gpio_requested,
                 irq_handlers, irq_pending, irq_ctx, class_devs, woken, now,
                 captured, ops, edges>>

(* the branches after wait_event_interruptible_timeout returned timeout *)
AfterWait(p, timeout) ==
  LET d == mem[proc[p].sensor] IN
  IF timeout = 0
  THEN [proc[p] EXCEPT !.pc = "m_unlock", !.ret = "ETIMEDOUT"]
  ELSE IF timeout < 0
       THEN [proc[p] EXCEPT !.pc = "m_unlock", !.ret = "ERESTARTSYS"]
       ELSE [proc[p] EXCEPT !.pc = "m_unlock", !.ret = "OK",
               !.usecs_elapsed = usecs_elapsed_of(d)]

(* wait_event_interruptible_timeout: the condition is looked at before *)
(* the caller sleeps                                                   *)
WaitEnter(p) ==
  /\ proc[p].pc = "m_wait"
  /\ LET d == mem[proc[p].sensor] IN
     IF d.echo_received # 0
     THEN proc' = [proc EXCEPT ![p] =
                     AfterWait(p, IF d.timeout = 0 THEN 1 ELSE d.timeout)]
     ELSE IF d.timeout = 0
          THEN proc' = [proc EXCEPT ![p] = AfterWait(p, 0)]
          ELSE proc' = [proc EXCEPT ![p].pc = "m_sleeping",
                                    ![p].wait_start = now]
  /\ woken' = woken \ {p}
  /\ UNCHANGED <<devices_mutex, hc_sr04_devices, mem, gpio_requested,
                 gpio_level, irq_handlers, irq_pending, irq_ctx, class_devs,
                 now, captured, ops, edges>>

Remaining(p) == mem[proc[p].sensor].timeout - (now - proc[p].wait_start)

(* woken through the wait queue before the timeout: sleeps again unless *)
(* the condition holds                                                  *)
WaitWoken(p) ==
  /\ proc[p].pc = "m_sleeping"
  /\ p \in woken
  /\ Remaining(p) > 0
  /\ woken' = woken \ {p}
  /\ IF mem[proc[p].sensor].echo_received # 0
     THEN proc' = [proc EXCEPT ![p] = AfterWait(p, Remaining(p))]
     ELSE UNCHANGED proc
  /\ UNCHANGED <<devices_mutex, hc_sr04_devices, mem, gpio_requested,
                 gpio_level, irq_handlers, irq_pending, irq_ctx, class_devs,
                 now, captured, ops, edges>>

(* fault: the wait gives up before the timeout has passed *)
WaitTimeout_Early(p) ==
  /\ proc[p].pc = "m_sleeping"
  /\ woken' = woken \ {p}
  /\ proc' = [proc EXCEPT ![p] =
                AfterWait(p, IF mem[proc[p].sensor].echo_received # 0
                             THEN 1 ELSE 0)]
  /\ UNCHANGED <<devices_mutex, hc_sr04_devices, mem, gpio_requested,
                 gpio_level, irq_handlers, irq_pending, irq_ctx, class_devs,
                 now, captured, ops, edges>>

(* the timeout elapsed: 1 when the condition holds by now, else 0 *)
WaitTimeout(p) ==
  /\ proc[p].pc = "m_sleeping"
  /\ Remaining(p) <= 0
  /\ woken' = woken \ {p}
  /\ proc' = [proc EXCEPT ![p] =
                AfterWait(p, IF mem[proc[p].sensor].echo_received # 0
                             THEN 1 ELSE 0)]
  /\ UNCHANGED <<devices_mutex, hc_sr04_devices, mem, gpio_requested,
                 gpio_level, irq_handlers, irq_pending, irq_ctx, class_devs,
                 now, captured, ops, edges>>

(* a signal arrives while the condition is false: -ERESTARTSYS *)
WaitSignal(p) ==
  /\ proc[p].pc = "m_sleeping"
  /\ Remaining(p) > 0
  /\ mem[proc[p].sensor].echo_received = 0
  /\ woken' = woken \ {p}
  /\ proc' = [proc EXCEPT ![p] = AfterWait(p, -1)]
  /\ UNCHANGED <<devices_mutex, hc_sr04_devices, mem, gpio_requested,
                 gpio_level, irq_handlers, irq_pending, irq_ctx, class_devs,
                 now, captured, ops, edges>>

(* fault: do_measurement returns without mutex_unlock *)
MeasureUnlock_Skip(p) ==
  /\ proc[p].pc = "m_unlock"
  /\ proc' = [proc EXCEPT ![p].pc = "m_return"]
  /\ UNCHANGED <<devices_mutex, hc_sr04_devices, mem, gpio_requested,
                 gpio_level, irq_handlers, irq_pending, irq_ctx, class_devs,
                 woken, now, captured, ops, edges>>

(* mutex_unlock(&device->measurement_mutex) *)
MeasureUnlock(p) ==
  /\ proc[p].pc = "m_unlock"
  /\ mem' = [mem EXCEPT ![proc[p].sensor].measurement_mutex = NoProc]
  /\ proc' = [proc EXCEPT ![p].pc = "m_return"]
  /\ UNCHANGED <<devices_mutex, hc_sr04_devices, gpio_requested, gpio_level,
                 irq_handlers, irq_pending, irq_ctx, class_devs, woken, now,
                 captured, ops, edges>>

(* sysfs_do_measurement returns the status or the printed value *)
MeasureReturn(p) ==
  /\ proc[p].pc = "m_return"
  /\ proc' = [proc EXCEPT ![p] =
                Returned("measure", proc[p].ret)]
  /\ UNCHANGED <<devices_mutex, hc_sr04_devices, mem, gpio_requested,
                 gpio_level, irq_handlers, irq_pending, irq_ctx, class_devs,
                 woken, now, captured, ops, edges>>

(* ---- echo_received_irq, one memory access per step ---- *)
EnvVars == <<devices_mutex, hc_sr04_devices, gpio_requested, irq_handlers,
             class_devs, proc>>

(* the line fires: ktime_get_real_ts64(&irq_ts);                  *)
(* if (!device->device_triggered) return IRQ_HANDLED               *)
IrqEntry(irq) ==
  /\ irq \in irq_pending
  /\ irq_ctx[irq].pc = "idle"
  /\ \E h \in irq_handlers :
       /\ h[1] = irq
       /\ irq_ctx' = [irq_ctx EXCEPT ![irq] =
                        IF mem[h[2]].device_triggered = 0 THEN IdleIrq
                        ELSE [IdleIrq EXCEPT !.pc = "h_received",
                                !.device = h[2],
                                !.irq_ts = timespec64(now)]]
  /\ irq_pending' = irq_pending \ {irq}
  /\ UNCHANGED <<EnvVars, mem, gpio_level, woken, now, captured, ops, edges>>

(* fault: the handler does not test echo_received *)
IrqCheckReceived_Skip(irq) ==
  /\ irq_ctx[irq].pc = "h_received"
  /\ irq_ctx' = [irq_ctx EXCEPT ![irq].pc = "h_get_value"]
  /\ UNCHANGED <<EnvVars, mem, gpio_level, irq_pending, woken, now, captured,
                 ops, edges>>

(* if (device->echo_received) return IRQ_HANDLED *)
IrqCheckReceived(irq) ==
  /\ irq_ctx[irq].pc = "h_received"
  /\ irq_ctx' = [irq_ctx EXCEPT ![irq] =
                   IF mem[irq_ctx[irq].device].echo_received # 0
                   THEN IdleIrq
                   ELSE [irq_ctx[irq] EXCEPT !.pc = "h_get_value"]]
  /\ UNCHANGED <<EnvVars, mem, gpio_level, irq_pending, woken, now,
                 captured, ops, edges>>

(* val = __gpio_get_value(device->gpio_echo) *)
IrqGetValue(irq) ==
  /\ irq_ctx[irq].pc = "h_get_value"
  /\ irq_ctx' = [irq_ctx EXCEPT ![irq].pc = "h_store",
                   ![irq].val = gpio_level[mem[irq_ctx[irq].device].gpio_echo]]
  /\ UNCHANGED <<EnvVars, mem, gpio_level, irq_pending, woken, now,
                 captured, ops, edges>>

(* device->time_triggered = irq_ts, or device->time_echoed = irq_ts *)
IrqStoreTime(irq) ==
  /\ irq_ctx[irq].pc = "h_store"
  /\ LET c == irq_ctx[irq] IN
     IF c.val = 1
     THEN /\ mem' = [mem EXCEPT ![c.device].time_triggered = c.irq_ts]
          /\ captured' = [captured EXCEPT ![c.device].rise = ~c.stale]
          /\ irq_ctx' = [irq_ctx EXCEPT ![irq] = IdleIrq]
     ELSE /\ mem' = [mem EXCEPT ![c.device].time_echoed = c.irq_ts]
          /\ captured' = [captured EXCEPT ![c.device].fall = ~c.stale]
          /\ irq_ctx' = [irq_ctx EXCEPT ![irq].pc = "h_set_received"]
  /\ UNCHANGED <<EnvVars, gpio_level, irq_pending, woken, now, ops, edges>>

(* device->echo_received = 1 *)
IrqSetReceived(irq) ==
  /\ irq_ctx[irq].pc = "h_set_received"
  /\ mem' = [mem EXCEPT ![irq_ctx[irq].device].echo_received = 1]
  /\ irq_ctx' = [irq_ctx EXCEPT ![irq].pc = "h_wake_up"]
  /\ UNCHANGED <<EnvVars, gpio_level, irq_pending, woken, now,
                 captured, ops, edges>>

(* the processes sleeping on device->wait_for_echo *)
Sleepers(s) ==
  {q \in Procs : proc[q].pc = "m_sleeping" /\ proc[q].sensor = s}

(* wake_up_interruptible(&device->wait_for_echo) *)
IrqWakeUp(irq) ==
  /\ irq_ctx[irq].pc = "h_wake_up"
  /\ woken' = woken \cup Sleepers(irq_ctx[irq].device)
  /\ irq_ctx' = [irq_ctx EXCEPT ![irq] = IdleIrq]
  /\ UNCHANGED <<EnvVars, mem, gpio_level, irq_pending, now,
                 captured, ops, edges>>

(* ---- environment ---- *)
(* the sensor drives its echo line: an edge on a line with a handler *)
EchoEdge(irq) ==
  /\ edges < MaxEdges
  /\ edges' = edges + 1
  /\ \E h \in irq_handlers : h[1] = irq
  /\ gpio_level' = [gpio_level EXCEPT ![irq] = 1 - gpio_level[irq]]
  /\ irq_pending' = irq_pending \cup {irq}
  /\ captured' = [s \in SensorIds |->
                    IF mem[s].alloc /\ mem[s].gpio_echo = irq
                       /\ gpio_level[irq] = 1
                    THEN [captured[s] EXCEPT !.fell = TRUE]
                    ELSE captured[s]]
  /\ UNCHANGED <<EnvVars, mem, irq_ctx, woken, now, ops>>

(* Time is seen through the timestamps of the handler and the timeout of a *)
(* wait only: it advances while some process delays or waits.              *)
Tick ==
  /\ now < MaxTime
  /\ \E p \in Procs : proc[p].pc \in {"m_sleep", "m_udelay", "m_sleeping"}
  /\ now' = now + 1
  /\ UNCHANGED <<EnvVars, mem, gpio_level, irq_pending, irq_ctx, woken,
                 captured, ops, edges>>

Init ==
  /\ devices_mutex = NoProc
  /\ hc_sr04_devices = <<>>
  /\ mem = [s \in SensorIds |-> FreeSlot]
  /\ gpio_requested = ForeignPins
  /\ gpio_level = [g \in ValidPins |-> 0]
  /\ irq_handlers = {}
  /\ irq_pending = {}
  /\ irq_ctx = [g \in ValidPins |-> IdleIrq]
  /\ class_devs = {}
  /\ proc = [p \in Procs |-> IdleProc]
  /\ woken = {}
  /\ now = 0
  /\ captured = [s \in SensorIds |-> NoCapture]
  /\ ops = 0
  /\ edges = 0

Next ==
  \/ \E p \in Procs :
       \/ AddLock(p) \/ AddBody(p)
       \/ RemoveLock(p) \/ RemoveFind(p)
       \/ RsFindDevice(p) \/ RsMutexLock(p) \/ RsUnregister(p)
       \/ RsMutexUnlock(p)
       \/ DestroyListDel(p) \/ DestroyFreeIrq(p) \/ DestroyFreeEcho(p)
       \/ DestroyFreeTrig(p) \/ DestroyKfree(p) \/ RemoveUnlock(p)
       \/ StartMeasure(p) \/ MeasureLock(p) \/ MeasureTryLock(p)
       \/ MeasureResetEcho(p) \/ MeasureResetTriggered(p)
       \/ MeasureTrigHigh(p) \/ MeasureSetTriggered(p) \/ MeasureTrigLow(p)
       \/ WaitEnter(p) \/ WaitWoken(p) \/ WaitTimeout(p) \/ WaitSignal(p)
       \/ MeasureUnlock(p) \/ MeasureReturn(p)
       \/ ExitLock(p) \/ ExitNext(p) \/ ExitUnlock(p)
       \/ ExitClassUnregister(p)
  \/ \E irq \in ValidPins :
       \/ IrqEntry(irq) \/ IrqCheckReceived(irq) \/ IrqGetValue(irq)
       \/ IrqStoreTime(irq) \/ IrqSetReceived(irq) \/ IrqWakeUp(irq)
       \/ EchoEdge(irq)
  \/ Tick

Spec == Init /\ [][Next]_vars

(***************************************************************************)
(* The elapsed time on sampled timestamps: a measurement at its wait, the  *)
(* handler having stored both timestamps of the echo pulse.  The samples   *)
(* take nanosecond parts at both ends of the range and on both sides of a  *)
(* microsecond, in seconds that keep the nanosecond count in range.        *)
(***************************************************************************)
TimeStamps == [tv_sec : {0, 1}, tv_nsec : {0, 1, 999, 1000, 500000000, 999999999}]

(* a timestamp in nanoseconds *)
NsOf(t) == t.tv_sec * NSEC_PER_SEC + t.tv_nsec

InitUsecs ==
  /\ devices_mutex = NoProc
  /\ hc_sr04_devices = <<1>>
  /\ \E triggered \in TimeStamps, echoed \in TimeStamps :
       /\ NsOf(echoed) >= NsOf(triggered)
       /\ mem = [s \in SensorIds |->
                   IF s = 1
                   THEN [alloc |-> TRUE, gpio_trig |-> 1, gpio_echo |-> 2,
                         irq |-> 2, time_triggered |-> triggered,
                         time_echoed |-> echoed, echo_received |-> 1,
                         device_triggered |-> 1, measurement_mutex |-> 1,
                         timeout |-> 1]
                   ELSE FreeSlot]
  /\ gpio_requested = ForeignPins \cup {1, 2}
  /\ gpio_level = [g \in ValidPins |-> 0]
  /\ irq_handlers = {<<2, 1>>}
  /\ irq_pending = {}
  /\ irq_ctx = [g \in ValidPins |-> IdleIrq]
  /\ class_devs = {1}
  /\ proc = [p \in Procs |->
               IF p = 1
               THEN [IdleProc EXCEPT !.pc = "m_wait", !.op = "measure",
                       !.sensor = 1]
               ELSE IdleProc]
  /\ woken = {}
  /\ now = 0
  /\ captured = [s \in SensorIds |->
                   IF s = 1 THEN [rise |-> TRUE, fall |-> TRUE, fell |-> TRUE]
                   ELSE NoCapture]
  /\ ops = MaxOps
  /\ edges = MaxEdges

NextUsecs == WaitEnter(1) \/ MeasureUnlock(1) \/ MeasureReturn(1)

SpecUsecs == InitUsecs /\ [][NextUsecs]_vars

(***************************************************************************)
(* Properties                                                              *)
(***************************************************************************)
MeasuringPcs ==
  {"m_sleep", "m_reset_trig", "m_trig_high", "m_udelay", "m_trig_low",
   "m_wait", "m_sleeping", "m_unlock"}

(* p is between its successful mutex_trylock and its mutex_unlock *)
InMeasurement(p) == proc[p].op = "measure" /\ proc[p].pc \in MeasuringPcs

Measurers(s) == {p \in Procs : InMeasurement(p) /\ proc[p].sensor = s}

(* the key is in the list, whatever find_sensor says *)
RegisteredIn(list, m, trig, echo) ==
  \E i \in DOMAIN list :
     m[list[i]].gpio_trig = trig /\ m[list[i]].gpio_echo = echo

Registered(trig, echo) == RegisteredIn(hc_sr04_devices, mem, trig, echo)

InList(s) == \E i \in DOMAIN hc_sr04_devices : hc_sr04_devices[i] = s

HasHandler(s) == \E h \in irq_handlers : h[2] = s

(* p's request ends in this step *)
Returns(p) == proc[p].pc # "idle" /\ proc'[p].pc = "idle"

(* ---- C1 ---- *)
ExclusiveMeasurement ==
  \A s \in SensorIds :
     /\ Cardinality(Measurers(s)) <= 1
     /\ \A p \in Measurers(s) : mem[s].measurement_mutex = p

BusyWhenHeld ==
  \A p \in Procs :
     (/\ proc[p].pc = "m_trylock"
      /\ proc'[p].pc # "m_trylock"
      /\ mem[proc[p].sensor].measurement_mutex # NoProc)
     => /\ proc'[p].pc = "m_return"
        /\ proc'[p].ret = "EBUSY"
        /\ mem' = mem

(* C1: a sensor never has two measurements in progress; a measure() that  *)
(* finds measurement_mutex held leaves at once with EBUSY and without     *)
(* touching the sensor, so of two concurrent calls one is Busy.           *)
C1_OneMeasurementPerSensor == [][ExclusiveMeasurement' /\ BusyWhenHeld]_vars

C1_Witness ==
  \E p, q \in Procs :
     /\ InMeasurement(p)
     /\ proc[q].op = "measure" /\ proc[q].pc = "m_return"
     /\ proc[q].ret = "EBUSY" /\ proc[q].sensor = proc[p].sensor

(* ---- C2 ---- *)
RemovingPcs ==
  {"rs_unreg", "rs_munlock", "d_list_del", "d_free_irq", "d_gpio_free_echo",
   "d_gpio_free_trig", "d_kfree", "cs_rm_unlock"}

(* C2: while a measurement holds measurement_mutex the sensor has its     *)
(* memory, both pins, its handler and its list entry; a remove() is past  *)
(* its mutex_lock only when no measurement is in progress on the sensor,  *)
(* and when it is about to return everything of the sensor is released.   *)
C2_RemoveWaitsForMeasurement ==
  /\ \A p \in Procs :
        InMeasurement(p) =>
          LET s == proc[p].sensor IN
          /\ mem[s].alloc
          /\ mem[s].gpio_trig \in gpio_requested
          /\ mem[s].gpio_echo \in gpio_requested
          /\ <<mem[s].irq, s>> \in irq_handlers
          /\ InList(s)
  /\ \A r \in Procs :
        (proc[r].op \in {"remove", "exit"} /\ proc[r].pc \in RemovingPcs) =>
          Measurers(proc[r].sensor) = {}
  /\ \A r \in Procs :
        proc[r].pc = "cs_rm_unlock" =>
          /\ ~mem[proc[r].sensor].alloc
          /\ ~InList(proc[r].sensor)
          /\ ~HasHandler(proc[r].sensor)
          /\ proc[r].trig \notin gpio_requested
          /\ proc[r].echo \notin gpio_requested

C2_Witness ==
  \E p, r \in Procs :
     /\ InMeasurement(p)
     /\ proc[r].op = "remove" /\ proc[r].pc = "rs_mlock"
     /\ proc[r].sensor = proc[p].sensor

(* ---- C3 ---- *)
UniqueKeys ==
  \A i, j \in DOMAIN hc_sr04_devices :
     (/\ mem[hc_sr04_devices[i]].gpio_trig = mem[hc_sr04_devices[j]].gpio_trig
      /\ mem[hc_sr04_devices[i]].gpio_echo = mem[hc_sr04_devices[j]].gpio_echo)
     => i = j

DuplicateAdd ==
  \A p \in Procs :
     (/\ proc[p].pc = "cs_add"
      /\ Returns(p)
      /\ Registered(proc[p].trig, proc[p].echo))
     => /\ proc'[p].ret = "EEXIST"
        /\ UNCHANGED <<hc_sr04_devices, mem, gpio_requested, irq_handlers,
                       class_devs>>

(* C3: the list never holds two sensors with the same pin pair, and an    *)
(* add for a pair that is in the list returns EEXIST and changes neither  *)
(* the list nor the pins.                                                 *)
C3_UniqueKeys == [][UniqueKeys' /\ DuplicateAdd]_vars

C3_Witness ==
  \E p \in Procs :
     /\ proc[p].pc = "idle" /\ proc[p].op = "add" /\ proc[p].ret = "EEXIST"
     /\ Len(hc_sr04_devices) = 1

(* ---- C4 ---- *)
(* C4: a remove of a pair that is not in the list returns ENODEV with     *)
(* devices_mutex released and changes nothing: not the list, the sensors, *)
(* the pins, the handlers or the class devices.                           *)
C4_RemoveNotFound ==
  [][\A p \in Procs :
       (/\ proc[p].pc = "cs_rm_find"
        /\ proc'[p] # proc[p]
        /\ ~Registered(proc[p].trig, proc[p].echo))
       => /\ proc'[p] = Returned("remove", "ENODEV")
          /\ devices_mutex' = NoProc
          /\ UNCHANGED <<hc_sr04_devices, mem, gpio_requested, gpio_level,
                         irq_handlers, irq_pending, class_devs>>]_vars

C4_Witness ==
  \E p \in Procs :
     /\ proc[p].pc = "idle" /\ proc[p].op = "remove"
     /\ proc[p].ret = "ENODEV"
     /\ ops = 1 /\ devices_mutex = NoProc

(* ---- C5 ---- *)
(* the time p has waited so far *)
Waited(p) == IF proc[p].pc = "m_sleeping" THEN now - proc[p].wait_start ELSE 0

(* C5: a wait that ends with no falling edge recorded (echo_received      *)
(* still 0) and without a signal ends in ETIMEDOUT; a wait ends in        *)
(* ETIMEDOUT only when the whole timeout of the sensor has passed since   *)
(* it began and echo_received is 0.                                       *)
C5_TimedOutAfterTimeout ==
  [][\A p \in Procs :
       (proc[p].pc \in {"m_wait", "m_sleeping"} /\ proc'[p].pc = "m_unlock")
       => LET d == mem[proc[p].sensor] IN
          /\ proc'[p].ret = "ETIMEDOUT"
               => (d.echo_received = 0 /\ Waited(p) >= d.timeout)
          /\ (d.echo_received = 0 /\ proc'[p].ret # "ERESTARTSYS")
               => proc'[p].ret = "ETIMEDOUT"]_vars

C5_Witness ==
  \E p \in Procs :
     /\ proc[p].pc = "m_unlock" /\ proc[p].ret = "ETIMEDOUT"
     /\ now - proc[p].wait_start >= mem[proc[p].sensor].timeout
     /\ mem[proc[p].sensor].timeout > 0

(* ---- C6 ---- *)
(* C6: a successful measure() reports time_echoed - time_triggered, and   *)
(* both were stored by the handler during this measurement.               *)
C6_ElapsedIsPulseWidth ==
  \A p \in Procs :
     (proc[p].pc = "m_unlock" /\ proc[p].ret = "OK")
     => /\ captured[proc[p].sensor].rise
        /\ captured[proc[p].sensor].fall
        /\ proc[p].usecs_elapsed # Junk
        /\ proc[p].usecs_elapsed = usecs_elapsed_of(mem[proc[p].sensor])

(* ---- C7 ---- *)
(* C7: a handler run that finds device_triggered 0, or echo_received set, *)
(* returns without writing a field of the sensor and without waking the   *)
(* wait queue.                                                            *)
C7_GuardedHandlerIsNoOp ==
  [][\A irq \in ValidPins :
       /\ (/\ irq \in irq_pending
           /\ irq \notin irq_pending'
           /\ \E h \in irq_handlers :
                h[1] = irq /\ mem[h[2]].device_triggered = 0)
          => (irq_ctx'[irq] = IdleIrq /\ mem' = mem /\ woken' = woken)
       /\ (/\ irq_ctx[irq].pc = "h_received"
           /\ irq_ctx'[irq].pc # "h_received"
           /\ mem[irq_ctx[irq].device].echo_received # 0)
          => (irq_ctx'[irq] = IdleIrq /\ mem' = mem /\ woken' = woken)]_vars

C7_Witness ==
  \E irq \in ValidPins :
     /\ irq_ctx[irq].pc = "h_received"
     /\ mem[irq_ctx[irq].device].echo_received = 1
     /\ captured[irq_ctx[irq].device].fall
     /\ Sleepers(irq_ctx[irq].device) # {}

(* ---- C8 ---- *)
(* C8: a measure() that is returning or has returned holds neither        *)
(* devices_mutex nor a measurement_mutex, whatever its result; a          *)
(* measurement_mutex that is held is held by a measurement in progress or *)
(* by a remove between its lock and its unlock, so it is free again once  *)
(* the measurement is over.                                               *)
C8_LocksReleasedOnReturn ==
  /\ \A p \in Procs :
        (proc[p].op = "measure" /\ proc[p].pc \in {"m_return", "idle"})
        => /\ devices_mutex # p
           /\ \A s \in SensorIds : mem[s].measurement_mutex # p
  /\ \A s \in SensorIds :
        mem[s].measurement_mutex # NoProc
        => LET h == mem[s].measurement_mutex IN
           \/ h \in Measurers(s)
           \/ /\ proc[h].op \in {"remove", "exit"} /\ proc[h].sensor = s
              /\ proc[h].pc \in {"rs_unreg", "rs_munlock"}

C8_Witness ==
  \E p, q \in Procs :
     /\ proc[p].pc = "idle" /\ proc[p].op = "measure"
     /\ proc[p].ret \in {"OK", "ETIMEDOUT", "ERESTARTSYS"}
     /\ InMeasurement(q)

(* ---- C9 ---- *)
(* C9: an add that fails leaves the pins, the handlers, the list, the     *)
(* heap and the class devices as they were, and its error tells the step: *)
(* EINVAL for an invalid pin, EBUSY for a pin that is taken, EEXIST for a *)
(* pair in the list, the error of the interrupt call or ENOMEM otherwise. *)
C9_FailedAddRollsBack ==
  [][\A p \in Procs :
       (proc[p].pc = "cs_add" /\ Returns(p) /\ proc'[p].ret # "OK")
       => LET trig == proc[p].trig
              echo == proc[p].echo
              invalid == ~gpio_is_valid(trig) \/ ~gpio_is_valid(echo)
              taken == \/ trig \in gpio_requested
                       \/ echo \in gpio_requested
                       \/ trig = echo
          IN
          /\ UNCHANGED <<hc_sr04_devices, mem, gpio_requested, irq_handlers,
                         class_devs>>
          /\ proc'[p].ret = "EEXIST" <=> Registered(trig, echo)
          /\ proc'[p].ret = "EINVAL" => invalid
          /\ proc'[p].ret = "EBUSY" => (~invalid /\ taken)
          /\ proc'[p].ret \in {"ENXIO", "ENOSYS"}
               => (~invalid /\ ~taken /\ ~Registered(trig, echo))
          /\ proc'[p].ret \in {"EEXIST", "EINVAL", "EBUSY", "ENXIO", "ENOSYS",
                               "ENOMEM"}]_vars

C9_Witness ==
  \E p \in Procs :
     /\ proc[p].pc = "idle" /\ proc[p].op = "add" /\ proc[p].ret = "ENOSYS"
     /\ gpio_requested = ForeignPins
     /\ hc_sr04_devices = <<>>

(* ---- C10 ---- *)
(* C10: remove() fails only with ENODEV and only for a pair that is not   *)
(* in the list; a remove of a pair in the list succeeds, and then the     *)
(* pair is gone from the list, its pins are free and its handler is       *)
(* unregistered.                                                          *)
C10_RemoveFailsOnlyNotFound ==
  [][\A p \in Procs :
       (proc[p].op = "remove" /\ Returns(p))
       => /\ proc'[p].ret # "OK"
               => (/\ proc'[p].ret = "ENODEV"
                   /\ ~Registered(proc[p].trig, proc[p].echo))
          /\ proc'[p].ret = "OK"
               => (/\ ~RegisteredIn(hc_sr04_devices', mem', proc[p].trig,
                                    proc[p].echo)
                   /\ proc[p].trig \notin gpio_requested'
                   /\ proc[p].echo \notin gpio_requested'
                   /\ \A h \in irq_handlers' : h[2] # proc[p].sensor)]_vars

(* ---- C11 ---- *)
(* C11: while a measurement is in progress device_triggered is never set  *)
(* with the trigger pin still high: the flag is set after the pin was     *)
(* driven low again.                                                      *)
C11_TriggeredAfterPulse ==
  \A p \in Procs :
     InMeasurement(p) =>
       LET d == mem[proc[p].sensor] IN
       ~(d.device_triggered = 1 /\ gpio_level[d.gpio_trig] = 1)

(* ---- C12 ---- *)
(* a measurement on s is between setting device_triggered and the end of *)
(* its wait                                                              *)
Waiting(s) ==
  \E p \in Procs :
     /\ proc[p].op = "measure" /\ proc[p].sensor = s
     /\ proc[p].pc \in {"m_trig_low", "m_wait", "m_sleeping"}

(* the handler writes a field of s in this step *)
HandlerWrites(s) ==
  /\ mem[s].alloc /\ mem'[s].alloc
  /\ \/ mem'[s].time_triggered # mem[s].time_triggered
     \/ mem'[s].time_echoed # mem[s].time_echoed
     \/ mem[s].echo_received = 0 /\ mem'[s].echo_received = 1

(* C12: the handler stores time_triggered or time_echoed or sets          *)
(* echo_received only while a measurement of the sensor is waiting for    *)
(* the echo, and device_triggered is set only during that time.           *)
C12_HandlerActsOnlyWhileWaiting ==
  [][\A s \in SensorIds : HandlerWrites(s) => Waiting(s)]_vars

(* ---- C13 ---- *)
(* C13: a measure() succeeds, and finds echo_received set at its wait,    *)
(* only when the echo line fell after this call set device_triggered.     *)
C13_SuccessNeedsFallingEdge ==
  \A p \in Procs :
     (proc[p].op = "measure" /\ proc[p].pc = "m_unlock" /\ proc[p].ret = "OK")
     => captured[proc[p].sensor].fell

(* ---- C14 ---- *)
(* C14: a measure() holds devices_mutex only from its mutex_lock to the   *)
(* result of mutex_trylock: not during the delay, the pulse or the wait,  *)
(* not when it returns, and it takes the mutex once.                      *)
C14_RegistryFreeWhileMeasuring ==
  \A p \in Procs :
     (proc[p].op = "measure" /\ devices_mutex = p) => proc[p].pc = "m_trylock"

(* another request holds devices_mutex while a measurement waits *)
C14_Witness ==
  \E p, q \in Procs :
     /\ proc[p].op = "measure" /\ proc[p].pc = "m_sleeping"
     /\ q # p /\ devices_mutex = q
     /\ proc[q].op \in {"add", "remove"}

(* ---- C15 ---- *)
(* what a step takes away from sensor s *)
LosesDevice(s) == s \in class_devs /\ s \notin class_devs'
LosesEntry(s) ==
  InList(s) /\ ~\E i \in DOMAIN hc_sr04_devices' : hc_sr04_devices'[i] = s
LosesHandler(s) ==
  <<mem[s].irq, s>> \in irq_handlers /\ <<mem[s].irq, s>> \notin irq_handlers'
LosesEcho(s) ==
  mem[s].gpio_echo \in gpio_requested /\ mem[s].gpio_echo \notin gpio_requested'
LosesTrig(s) ==
  mem[s].gpio_trig \in gpio_requested /\ mem[s].gpio_trig \notin gpio_requested'
IsFreed(s) == mem[s].alloc /\ ~mem'[s].alloc

(* a remove or exit_hc_sr04 is at work on s and owns devices_mutex *)
Remover(s) ==
  {r \in Procs : /\ proc[r].op \in {"remove", "exit"}
                 /\ proc[r].sensor = s /\ devices_mutex = r}

(* C15 as stated: the handler is unregistered, the pins are released and  *)
(* the list entry is removed while the remover owns measurement_mutex,    *)
(* and the sensor is freed after the mutex was released.                  *)
C15_TeardownUnderMeasurementLock ==
  [][\A s \in SensorIds :
       mem[s].alloc =>
         /\ (LosesHandler(s) \/ LosesEcho(s) \/ LosesTrig(s) \/ LosesEntry(s))
              => mem[s].measurement_mutex \in Remover(s)
         /\ IsFreed(s) => mem[s].measurement_mutex = NoProc]_vars

(* C15 amended: the remover owns devices_mutex throughout; the device is  *)
(* unregistered while it owns measurement_mutex; after it released        *)
(* measurement_mutex it removes the list entry, then unregisters the      *)
(* handler, then releases the echo pin, then the trigger pin, then frees  *)
(* the sensor, and no measurement is in progress during these steps.      *)
C15_TeardownOrder ==
  [][\A s \in SensorIds :
       mem[s].alloc =>
         /\ (\/ LosesDevice(s) \/ LosesEntry(s) \/ LosesHandler(s)
              \/ LosesEcho(s) \/ LosesTrig(s) \/ IsFreed(s))
              => (Remover(s) # {} /\ Measurers(s) = {})
         /\ LosesDevice(s)
              => (/\ mem[s].measurement_mutex \in Remover(s)
                  /\ InList(s) /\ ~LosesEntry(s))
         /\ LosesEntry(s)
              => (/\ mem[s].measurement_mutex = NoProc
                  /\ s \notin class_devs
                  /\ HasHandler(s) /\ ~LosesHandler(s))
         /\ LosesHandler(s)
              => (/\ mem[s].measurement_mutex = NoProc
                  /\ ~InList(s)
                  /\ mem[s].gpio_echo \in gpio_requested /\ ~LosesEcho(s))
         /\ LosesEcho(s)
              => (/\ ~HasHandler(s)
                  /\ mem[s].gpio_trig \in gpio_requested /\ ~LosesTrig(s))
         /\ LosesTrig(s)
              => (mem[s].gpio_echo \notin gpio_requested /\ ~IsFreed(s))
         /\ IsFreed(s)
              => (/\ mem[s].gpio_trig \notin gpio_requested
                  /\ mem[s].gpio_echo \notin gpio_requested
                  /\ ~HasHandler(s) /\ ~InList(s)
                  /\ mem[s].measurement_mutex = NoProc)]_vars

(* the handler is gone and the echo pin released, the trigger pin not yet *)
C15_Witness ==
  \E r \in Procs :
     /\ proc[r].op = "remove" /\ proc[r].pc = "d_gpio_free_trig"
     /\ devices_mutex = r
     /\ LET s == proc[r].sensor IN
        /\ mem[s].alloc /\ mem[s].measurement_mutex = NoProc
        /\ ~InList(s) /\ ~HasHandler(s)
        /\ mem[s].gpio_echo \notin gpio_requested
        /\ mem[s].gpio_trig \in gpio_requested

C17_ExitLeavesNothing ==
  (\E p \in Procs : proc[p].op = "exit" /\ proc[p].pc = "idle")
  => /\ hc_sr04_devices = <<>>
     /\ gpio_requested = ForeignPins
     /\ irq_handlers = {}

(* ---- C18 ---- *)
(* the difference of the two timestamps of sensor d in whole microseconds *)
TrueUsecs(d) == (NsOf(d.time_echoed) - NsOf(d.time_triggered)) \div 1000

(* the nanosecond part of time_echoed is the smaller one and the          *)
(* difference of the parts is not a whole number of microseconds          *)
NsecBorrow(d) ==
  /\ d.time_echoed.tv_nsec < d.time_triggered.tv_nsec
  /\ (d.time_triggered.tv_nsec - d.time_echoed.tv_nsec) % 1000 # 0

(* C18 as stated: for time_echoed >= time_triggered the value of a        *)
(* success is the difference in whole microseconds, rounded down, and is  *)
(* not negative.                                                          *)
C18_ElapsedIsFloor ==
  \A p \in Procs :
     (proc[p].pc = "m_unlock" /\ proc[p].ret = "OK")
     => LET d == mem[proc[p].sensor] IN
        /\ proc[p].usecs_elapsed = TrueUsecs(d)
        /\ proc[p].usecs_elapsed >= 0

(* C18 amended: the value is the difference rounded down, plus one        *)
(* microsecond when the nanosecond part of time_echoed is the smaller one *)
(* and the parts do not differ by whole microseconds; it is not negative. *)
C18_ElapsedIsTruncated ==
  \A p \in Procs :
     (proc[p].pc = "m_unlock" /\ proc[p].ret = "OK")
     => LET d == mem[proc[p].sensor] IN
        /\ proc[p].usecs_elapsed =
             TrueUsecs(d) + (IF NsecBorrow(d) THEN 1 ELSE 0)
        /\ proc[p].usecs_elapsed >= 0

(* a success across a seconds boundary that is one microsecond too long *)
C18_Witness ==
  \E p \in Procs :
     /\ proc[p].pc = "m_unlock" /\ proc[p].ret = "OK"
     /\ NsecBorrow(mem[proc[p].sensor])
     /\ proc[p].usecs_elapsed = TrueUsecs(mem[proc[p].sensor]) + 1

(* ---- C19 ---- *)
(* a remove or exit_hc_sr04 has looked s up and not yet returned *)
BeingRemoved(s) ==
  \E r \in Procs :
     /\ proc[r].op \in {"remove", "exit"} /\ proc[r].sensor = s
     /\ proc[r].pc \in {"rs_find", "rs_mlock"} \cup RemovingPcs

(* C19: a measure() never works on a freed sensor, and the sensor it got  *)
(* is protected by devices_mutex: between getting the sensor and its      *)
(* mutex_trylock no remove of that sensor is under way.                   *)
C19_ReferenceProtected ==
  \A p \in Procs :
     (proc[p].op = "measure" /\ proc[p].pc # "idle")
     => /\ mem[proc[p].sensor].alloc
        /\ proc[p].pc \in {"m_lock", "m_trylock"}
             => ~BeingRemoved(proc[p].sensor)

(* ---- C20 ---- *)
(* a step of a request in progress, of a handler run or of the clock *)
Progress ==
  \/ \E p \in Procs :
       \/ AddBody(p) \/ RemoveFind(p)
       \/ RsFindDevice(p) \/ RsMutexLock(p) \/ RsUnregister(p)
       \/ RsMutexUnlock(p)
       \/ DestroyListDel(p) \/ DestroyFreeIrq(p) \/ DestroyFreeEcho(p)
       \/ DestroyFreeTrig(p) \/ DestroyKfree(p) \/ RemoveUnlock(p)
       \/ MeasureLock(p) \/ MeasureTryLock(p)
       \/ MeasureResetEcho(p) \/ MeasureResetTriggered(p)
       \/ MeasureTrigHigh(p) \/ MeasureSetTriggered(p) \/ MeasureTrigLow(p)
       \/ WaitEnter(p) \/ WaitWoken(p) \/ WaitTimeout(p) \/ WaitSignal(p)
       \/ MeasureUnlock(p) \/ MeasureReturn(p)
       \/ ExitNext(p) \/ ExitUnlock(p) \/ ExitClassUnregister(p)
  \/ \E irq \in ValidPins :
       \/ IrqEntry(irq) \/ IrqCheckReceived(irq) \/ IrqGetValue(irq)
       \/ IrqStoreTime(irq) \/ IrqSetReceived(irq) \/ IrqWakeUp(irq)
  \/ Tick

(* C20: no deadlock: while a request is in progress, some request in      *)
(* progress, a handler run or the clock can take a step.                  *)
C20_NoDeadlock ==
  (\E p \in Procs : proc[p].pc # "idle") => ENABLED Progress

====
